---- MODULE Spec2Model ----
(***************************************************************************)
(* ART_DRM backend bootstrap (app/main.py): the fault-isolation middleware *)
(* db_exception_handler, the startup/shutdown hooks startup_db and         *)
(* shutdown_db, and the host runtime that runs the hooks and dispatches    *)
(* requests through the middleware.                                        *)
(***************************************************************************)
EXTENDS Integers, Sequences, FiniteSets, TLC

VARIABLES
    appState,         \* host process: STARTING | RUNNING | STOPPING | STOPPED | ABORTED
    lifecycle,        \* UNINITIALIZED | CONNECTING | READY | SHUTTING_DOWN | CLOSED
    handle,           \* the shared connection: "none" | "open" | "closed"
    startup,          \* position of startup_db: pending | connecting | returned | raised
    shutdown,         \* position of shutdown_db: pending | closing | returned | raised
    connectAttempts,  \* calls of connect_to_mongo
    closeCalls,       \* calls of close_mongo_connection
    released,         \* times the open connection was actually closed
    req,              \* per request: position, call_next count, chain outcome, result
    inflightAtSignal, \* the requests that were in flight when the shutdown signal came
    signalled,        \* a shutdown signal has arrived
    releaseHistory,   \* per finished shutdown_db call: did it raise, the state it left
    log,              \* the operational log (logger.error / logger.critical records)
    middleware,       \* app.user_middleware: the middleware stack, outermost first
    v1router,         \* the routes of app.api.v1.router
    routes            \* the routes of app

vars == <<appState, lifecycle, handle, startup, shutdown, connectAttempts,
          closeCalls, released, req, inflightAtSignal, signalled, releaseHistory, log,
          middleware, v1router, routes>>

\* What create_app wires together.
wiring == <<middleware, v1router, routes>>

----------------------------------------------------------------------------
(* Bounds *)

MaxRequests == 2

MaxReleaseCalls == 2

MaxDuplicateIncludes == 1

Requests == 1..MaxRequests

----------------------------------------------------------------------------
(* Failures: an exception is a type and a message.  A message is a sequence *)
(* of tokens (pieces of the text of str(e)).                                *)

\* The exception classes a handler chain can raise, with their direct base class.
ExcTypes == {"RuntimeError", "NotImplementedError", "ValueError",
             "RequestValidationError", "CancelledError"}

BaseOf(t) ==
    CASE t = "NotImplementedError"    -> "RuntimeError"
      [] t = "RuntimeError"           -> "Exception"
      [] t = "ValueError"             -> "Exception"
      [] t = "RequestValidationError" -> "Exception"
      [] t = "Exception"              -> "BaseException"
      [] t = "CancelledError"         -> "BaseException"
      [] OTHER                        -> "object"

\* isinstance(e, cls): what an `except cls` clause tests.
RECURSIVE IsInstance(_, _)
IsInstance(t, cls) ==
    IF t = cls THEN TRUE
    ELSE IF t = "object" THEN FALSE
    ELSE IsInstance(BaseOf(t), cls)

\* The messages tried: one with the needle inside it, one with the needle in
\* another case, one without it.
Messages == { <<"lost", "MongoDB", "connection">>,
              <<"mongodb", "down">>,
              <<"boom">> }

\* needle in str(e): the needle occurs as a contiguous piece of the message.
Contains(msg, needle) ==
    \E i \in 1..Len(msg) :
        /\ i + Len(needle) - 1 <= Len(msg)
        /\ SubSeq(msg, i, i + Len(needle) - 1) = needle

MongoNeedle == <<"MongoDB">>

----------------------------------------------------------------------------
(* Responses and outcomes, in one record shape. *)

NoOutcome == [kind |-> "none", status |-> 0, body |-> <<>>, type |-> "-", msg |-> <<>>]

Response(status, body) ==
    [kind |-> "response", status |-> status, body |-> body, type |-> "-", msg |-> <<>>]

Raised(type, msg) ==
    [kind |-> "raise", status |-> 0, body |-> <<>>, type |-> type, msg |-> msg]

\* JSONResponse(status_code=.., content={"detail": ..}): a body is the sequence
\* of its fields, each a key and the tokens of its value.
JSONResponse(status, detail) == Response(status, << <<"detail", detail>> >>)

ServiceUnavailableDetail == <<"Service unavailable - database error">>

InternalErrorDetail == <<"Internal server error">>

\* What the wrapped chain (CORS excluded) can hand back to the middleware: the
\* root acknowledgment, a not-found, and the validation-error response that the
\* framework builds from a RequestValidationError inside the chain.
ValidationResponse == Response(422, << <<"detail", <<"validation errors">> >> >>)

RootResponse == Response(200, << <<"message", <<"ART_DRM Backend Service">> >> >>)

IconResponse == Response(200, << <<"file", <<"static", "favicon.ico">> >> >>)

OkResponse == Response(200, << <<"result", <<"ok">> >> >>)

NotFoundResponse == Response(404, << <<"detail", <<"Not Found">> >> >>)

ChainResponses ==
    { RootResponse, IconResponse, OkResponse, NotFoundResponse, ValidationResponse }

\* The responses a handler can end with: root its acknowledgment, favicon the
\* icon file, the router its not-found for a path no route has, the handler of
\* a route group a result, a not-found or a validation error.
ResponsesOf(handler) ==
    CASE handler = "root"      -> { RootResponse }
      [] handler = "favicon"   -> { IconResponse }
      [] handler = "not_found" -> { NotFoundResponse }
      [] OTHER                 -> { OkResponse, NotFoundResponse, ValidationResponse }

\* The handlers that can raise: those of the route groups.  root returns a
\* literal, the router answers a missing route itself, and the icon file is
\* taken to be there.
CanRaise(handler) == handler \notin {"root", "favicon", "not_found"}

LogRecord(level, text, trace) == [level |-> level, text |-> text, trace |-> trace]

\* path and via: the path of the request in flight and the layers it has
\* entered, the route handler last; both go with the request when it ends.
NewRequest == [pc |-> "new", calls |-> 0, classified |-> 0,
               outcome |-> NoOutcome, result |-> NoOutcome,
               path |-> <<>>, via |-> <<>>]

----------------------------------------------------------------------------
(* Wiring: middleware and routes. *)

\* app.add_middleware(..): user_middleware.insert(0, ..), the last added is
\* the outermost.
AddMiddleware(stack, m) == <<m>> \o stack

Route(path, handler) == [path |-> path, handler |-> handler]

V1GroupsAdminTwice == <<"auth", "artwork", "blockchain", "admin", "admin">>

\* The route groups, in the order app/api/v1/__init__.py includes them.
V1Groups == <<"auth", "artwork", "blockchain", "admin">>

\* The router of a route group: one route stands for its routes.
GroupRouter(g) == << Route(<<g>>, g) >>

\* target.include_router(router, prefix=prefix): every route of router is
\* added to target under the prefix.
IncludeRouter(target, router, prefix) ==
    target \o [i \in 1..Len(router) |-> Route(prefix \o router[i].path, router[i].handler)]

RECURSIVE IncludeAll(_, _)
IncludeAll(target, groups) ==
    IF groups = <<>> THEN target
    ELSE IncludeAll(IncludeRouter(target, GroupRouter(Head(groups)), <<>>), Tail(groups))

\* prefix="/api/v1"
ApiPrefix == <<"api", "v1">>

\* The paths requests come with: every route's, and one no route has.
RequestPaths ==
    { <<>>, <<"favicon.ico">>, <<"missing">>,
      ApiPrefix \o <<"auth">>, ApiPrefix \o <<"artwork">>,
      ApiPrefix \o <<"blockchain">>, ApiPrefix \o <<"admin">> }

\* The handler the router finds for a path: the first route with that path.
Match(rs, path) ==
    IF \E i \in 1..Len(rs) : rs[i].path = path
    THEN rs[CHOOSE i \in 1..Len(rs) :
                /\ rs[i].path = path
                /\ \A j \in 1..(i - 1) : rs[j].path # path].handler
    ELSE "not_found"

TraverseStaticOutside(stack, rs, path) ==
    IF Match(rs, path) \in {"root", "favicon"}
    THEN << Match(rs, path) >>
    ELSE stack \o << Match(rs, path) >>

\* The layers a request enters: the middleware stack from the outermost in,
\* then the handler the router finds.
Traverse(stack, rs, path) == stack \o << Match(rs, path) >>

----------------------------------------------------------------------------
(* db_exception_handler: the except clauses, applied to the failure e that   *)
(* call_next raised.  The result is what the middleware hands to its caller  *)
(* (a response, or the failure raised again) and the records it logs.        *)

\* Which except clause takes the failure e, and what it does with it:
\*   except RuntimeError, "MongoDB" in str(e)      -> the 503 response
\*   except RuntimeError, otherwise: a bare raise  -> leaves the try statement,
\*                                                    the next clause is not tried
\*   except Exception                               -> the 500 response
\*   no clause matches                              -> the failure goes on
ClassifyByMessage(e) ==
    IF IsInstance(e.type, "Exception")
    THEN IF Contains(e.msg, MongoNeedle) THEN "ServiceUnavailable"
         ELSE IF IsInstance(e.type, "RuntimeError") THEN "Raise" ELSE "InternalError"
    ELSE "Raise"

Classify(e) ==
    IF IsInstance(e.type, "RuntimeError")
    THEN IF Contains(e.msg, MongoNeedle) THEN "ServiceUnavailable" ELSE "Raise"
    ELSE IF IsInstance(e.type, "Exception") THEN "InternalError"
    ELSE "Raise"

OnFailureLeaking503(e) ==
    CASE Classify(e) = "ServiceUnavailable" ->
            [result |-> JSONResponse(503, <<"Database error:">> \o e.msg),
             log    |-> << LogRecord("error", <<"Database error:">> \o e.msg, FALSE) >>]
      [] Classify(e) = "InternalError" ->
            [result |-> JSONResponse(500, InternalErrorDetail),
             log    |-> << LogRecord("error", <<"Unhandled exception:">> \o e.msg, TRUE) >>]
      [] OTHER ->
            [result |-> Raised(e.type, e.msg), log |-> <<>>]

OnFailureLeaking500(e) ==
    CASE Classify(e) = "ServiceUnavailable" ->
            [result |-> JSONResponse(503, ServiceUnavailableDetail),
             log    |-> << LogRecord("error", <<"Database error:">> \o e.msg, FALSE) >>]
      [] Classify(e) = "InternalError" ->
            [result |-> JSONResponse(500, <<"Unhandled exception:">> \o e.msg),
             log    |-> << LogRecord("error", <<"Unhandled exception:">> \o e.msg, TRUE) >>]
      [] OTHER ->
            [result |-> Raised(e.type, e.msg), log |-> <<>>]


OnFailure(e) ==
    CASE Classify(e) = "ServiceUnavailable" ->
            [result |-> JSONResponse(503, ServiceUnavailableDetail),
             log    |-> << LogRecord("error", <<"Database error:">> \o e.msg, FALSE) >>]
      [] Classify(e) = "InternalError" ->
            [result |-> JSONResponse(500, InternalErrorDetail),
             log    |-> << LogRecord("error", <<"Unhandled exception:">> \o e.msg, TRUE) >>]
      [] OTHER ->
            [result |-> Raised(e.type, e.msg), log |-> <<>>]

AfterChainReturnedRewrapping(rq, resp) ==
    [rq EXCEPT !.pc = "done", !.outcome = resp,
               !.result = JSONResponse(resp.status, <<"ok">>),
               !.path = <<>>, !.via = <<>>]

\* The request after `await call_next(request)` returned resp (lines 34-35).
AfterChainReturned(rq, resp) ==
    [rq EXCEPT !.pc = "done", !.outcome = resp, !.result = resp,
               !.path = <<>>, !.via = <<>>]

AfterChainRaisedRetrying(rq, e) ==
    IF rq.calls < 2
    THEN [rq EXCEPT !.pc = "awaiting", !.calls = @ + 1, !.outcome = e]
    ELSE [rq EXCEPT !.pc = "done", !.outcome = e, !.classified = @ + 1,
                    !.result = OnFailure(e).result, !.path = <<>>, !.via = <<>>]

\* The request after `await call_next(request)` raised e (lines 36-49).
AfterChainRaised(rq, e) ==
    [rq EXCEPT !.pc = "done", !.outcome = e, !.classified = @ + 1,
               !.result = OnFailure(e).result, !.path = <<>>, !.via = <<>>]

----------------------------------------------------------------------------
(* The hooks. *)

NoStartupHandlers == <<>>

NoShutdownHandlers == <<>>

\* app.add_event_handler("startup", startup_db)
StartupHandlers == << "startup_db" >>

\* app.add_event_handler("shutdown", shutdown_db)
ShutdownHandlers == << "shutdown_db" >>

StartupFailedSwallowing(msg) ==
    [startup |-> "returned",
     log     |-> << LogRecord("critical", <<"Failed to initialize database:">> \o msg, FALSE) >>]

StartupFailedRetrying(msg) ==
    [startup |-> "pending",
     log     |-> << LogRecord("critical", <<"Failed to initialize database:">> \o msg, FALSE) >>]

\* startup_db when connect_to_mongo raised: logger.critical, then raise.
StartupFailed(msg) ==
    [startup |-> "raised",
     log     |-> << LogRecord("critical", <<"Failed to initialize database:">> \o msg, FALSE) >>]

\* How close_mongo_connection can end: closing what is already closed does
\* nothing; closing the open connection can fail.
CloseOutcomes(h) == IF h = "closed" THEN {"ok"} ELSE {"ok", "fail"}

\* How connect_to_mongo can end.
ConnectOutcomes == {"ok", "fail"}

----------------------------------------------------------------------------
Init ==
    /\ appState = "LOADING"
    /\ middleware = <<>>
    /\ v1router = <<>>
    /\ routes = <<>>
    /\ lifecycle = "UNINITIALIZED"
    /\ handle = "none"
    /\ startup = "pending"
    /\ shutdown = "pending"
    /\ connectAttempts = 0
    /\ closeCalls = 0
    /\ released = 0
    /\ req = [r \in Requests |-> NewRequest]
    /\ inflightAtSignal = {}
    /\ signalled = FALSE
    /\ releaseHistory = <<>>
    /\ log = <<>>

state == <<lifecycle, handle, startup, shutdown, connectAttempts, closeCalls,
           released, req, inflightAtSignal, signalled, releaseHistory, log>>

\* create_app up to register_routes_and_events: the two middlewares.
create_app ==
    /\ appState = "LOADING"
    /\ middleware = <<>>
    /\ middleware' = AddMiddleware(AddMiddleware(middleware, "CORSMiddleware"),
                                   "db_exception_handler")
    /\ UNCHANGED <<appState, v1router, routes, state>>

\* `from app.api.v1 import router`: the module includes the four groups.
import_api_v1 ==
    /\ appState = "LOADING"
    /\ middleware # <<>>
    /\ v1router = <<>>
    /\ v1router' = IncludeAll(v1router, V1Groups)
    /\ UNCHANGED <<appState, middleware, routes, state>>

\* register_routes_and_events after the import: the event handlers, the
\* router under its prefix, root and favicon; create_app returns the app.
register_routes_and_events ==
    /\ appState = "LOADING"
    /\ v1router # <<>>
    /\ routes' = IncludeRouter(routes, v1router, ApiPrefix)
                    \o << Route(<<>>, "root"), Route(<<"favicon.ico">>, "favicon") >>
    /\ appState' = "STARTING"
    /\ UNCHANGED <<middleware, v1router, state>>

\* The host runs the startup handlers: startup_db up to `await connect_to_mongo()`.
startup_db ==
    /\ appState = "STARTING"
    /\ startup = "pending"
    /\ Len(StartupHandlers) > 0
    /\ startup' = "connecting"
    /\ lifecycle' = "CONNECTING"
    /\ connectAttempts' = connectAttempts + 1
    /\ UNCHANGED <<wiring, appState, handle, shutdown, closeCalls, released, req,
                   inflightAtSignal, signalled, releaseHistory, log>>

\* connect_to_mongo returned: startup_db returns.
startup_db_connected ==
    /\ startup = "connecting"
    /\ "ok" \in ConnectOutcomes
    /\ handle' = "open"
    /\ lifecycle' = "READY"
    /\ startup' = "returned"
    /\ UNCHANGED <<wiring, appState, shutdown, connectAttempts, closeCalls, released, req,
                   inflightAtSignal, signalled, releaseHistory, log>>

\* connect_to_mongo raised: the except clause of startup_db.
startup_db_failed ==
    /\ startup = "connecting"
    /\ "fail" \in ConnectOutcomes
    /\ \E msg \in Messages :
          /\ startup' = StartupFailed(msg).startup
          /\ log' = log \o StartupFailed(msg).log
    /\ UNCHANGED <<wiring, appState, lifecycle, handle, shutdown, connectAttempts, closeCalls,
                   released, req, inflightAtSignal, signalled, releaseHistory>>

\* The host, every startup handler having returned: the listener opens.
host_running ==
    /\ appState = "STARTING"
    /\ \/ startup = "returned"
       \/ Len(StartupHandlers) = 0
    /\ appState' = "RUNNING"
    /\ UNCHANGED <<wiring, lifecycle, handle, startup, shutdown, connectAttempts, closeCalls,
                   released, req, inflightAtSignal, signalled, releaseHistory, log>>

\* The host, a startup handler having raised: the process exits.
host_aborted ==
    /\ appState = "STARTING"
    /\ startup = "raised"
    /\ appState' = "ABORTED"
    /\ UNCHANGED <<wiring, lifecycle, handle, startup, shutdown, connectAttempts, closeCalls,
                   released, req, inflightAtSignal, signalled, releaseHistory, log>>

\* A request arrives: db_exception_handler runs up to `await call_next(request)`.
dispatch(r) ==
    /\ appState = "RUNNING"
    /\ req[r].pc = "new"
    /\ \E p \in RequestPaths :
          req' = [req EXCEPT ![r].pc = "awaiting", ![r].calls = @ + 1,
                             ![r].path = p, ![r].via = Traverse(middleware, routes, p)]
    /\ UNCHANGED <<wiring, appState, lifecycle, handle, startup, shutdown, connectAttempts,
                   closeCalls, released, inflightAtSignal, signalled, releaseHistory, log>>

\* call_next returned a response: db_exception_handler returns it.
chain_returned(r) ==
    /\ req[r].pc = "awaiting"
    /\ \E resp \in ResponsesOf(req[r].via[Len(req[r].via)]) :
          req' = [req EXCEPT ![r] = AfterChainReturned(@, resp)]
    /\ UNCHANGED <<wiring, appState, lifecycle, handle, startup, shutdown, connectAttempts,
                   closeCalls, released, inflightAtSignal, signalled, releaseHistory, log>>

chain_raised_poisoning(r) ==
    /\ req[r].pc = "awaiting"
    /\ CanRaise(req[r].via[Len(req[r].via)])
    /\ \E t \in ExcTypes, m \in Messages :
          LET e == Raised(t, m) IN
          /\ req' = [q \in Requests |->
                        IF q = r THEN AfterChainRaised(req[q], e)
                        ELSE IF req[q].pc = "awaiting" /\ Classify(e) = "ServiceUnavailable"
                        THEN AfterChainRaised(req[q], e)
                        ELSE req[q]]
          /\ log' = log \o OnFailure(e).log
    /\ UNCHANGED <<wiring, appState, lifecycle, handle, startup, shutdown, connectAttempts,
                   closeCalls, released, inflightAtSignal, signalled, releaseHistory>>

chain_raised_degrading(r) ==
    /\ req[r].pc = "awaiting"
    /\ CanRaise(req[r].via[Len(req[r].via)])
    /\ \E t \in ExcTypes, m \in Messages :
          LET e == Raised(t, m) IN
          /\ req' = [req EXCEPT ![r] = AfterChainRaised(@, e)]
          /\ log' = log \o OnFailure(e).log
          /\ lifecycle' = IF Classify(e) = "ServiceUnavailable" THEN "DEGRADED" ELSE lifecycle
    /\ UNCHANGED <<wiring, appState, handle, startup, shutdown, connectAttempts,
                   closeCalls, released, inflightAtSignal, signalled, releaseHistory>>

\* call_next raised: the except clauses of db_exception_handler.
chain_raised(r) ==
    /\ req[r].pc = "awaiting"
    /\ CanRaise(req[r].via[Len(req[r].via)])
    /\ \E t \in ExcTypes, m \in Messages :
          LET e == Raised(t, m) IN
          /\ req' = [req EXCEPT ![r] = AfterChainRaised(@, e)]
          /\ log' = IF AfterChainRaised(req[r], e).pc = "done"
                    THEN log \o OnFailure(e).log
                    ELSE log
    /\ UNCHANGED <<wiring, appState, lifecycle, handle, startup, shutdown, connectAttempts,
                   closeCalls, released, inflightAtSignal, signalled, releaseHistory>>

\* The shutdown signal: the host stops accepting requests.
shutdown_signal ==
    /\ appState = "RUNNING"
    /\ appState' = "STOPPING"
    /\ signalled' = TRUE
    /\ inflightAtSignal' = {r \in Requests : req[r].pc = "awaiting"}
    /\ UNCHANGED <<wiring, lifecycle, handle, startup, shutdown, connectAttempts, closeCalls,
                   released, req, releaseHistory, log>>

\* shutdown_db up to `await close_mongo_connection()`.
BeginClose ==
    /\ shutdown' = "closing"
    /\ closeCalls' = closeCalls + 1
    /\ lifecycle' = IF handle = "open" THEN "SHUTTING_DOWN" ELSE lifecycle

\* The host, the in-flight requests having drained, runs the shutdown handlers.
shutdown_db ==
    /\ appState = "STOPPING"
    /\ shutdown = "pending"
    /\ Len(ShutdownHandlers) > 0
    /\ \A r \in Requests : req[r].pc # "awaiting"
    /\ BeginClose
    /\ UNCHANGED <<wiring, appState, handle, startup, connectAttempts, released, req,
                   inflightAtSignal, signalled, releaseHistory, log>>

\* close_mongo_connection returned: shutdown_db returns.
shutdown_db_closed ==
    /\ shutdown = "closing"
    /\ "ok" \in CloseOutcomes(handle)
    /\ shutdown' = "returned"
    /\ handle' = IF handle = "open" THEN "closed" ELSE handle
    /\ released' = IF handle = "open" THEN released + 1 ELSE released
    /\ lifecycle' = IF handle = "open" THEN "CLOSED" ELSE lifecycle
    /\ releaseHistory' = Append(releaseHistory, [raised |-> FALSE, state |-> lifecycle'])
    /\ UNCHANGED <<wiring, appState, startup, connectAttempts, closeCalls, req,
                   inflightAtSignal, signalled, log>>

\* close_mongo_connection raised: shutdown_db has no except clause.
shutdown_db_failed ==
    /\ shutdown = "closing"
    /\ "fail" \in CloseOutcomes(handle)
    /\ shutdown' = "raised"
    /\ releaseHistory' = Append(releaseHistory, [raised |-> TRUE, state |-> lifecycle])
    /\ UNCHANGED <<wiring, appState, lifecycle, handle, startup, connectAttempts, closeCalls,
                   released, req, inflightAtSignal, signalled, log>>

\* The host, the shutdown handlers having run: the process may exit.
host_stopped ==
    /\ appState = "STOPPING"
    /\ \/ shutdown \in {"returned", "raised"}
       \/ Len(ShutdownHandlers) = 0 /\ \A r \in Requests : req[r].pc # "awaiting"
    /\ appState' = "STOPPED"
    /\ UNCHANGED <<wiring, lifecycle, handle, startup, shutdown, connectAttempts, closeCalls,
                   released, req, inflightAtSignal, signalled, releaseHistory, log>>

Next ==
    \/ create_app
    \/ import_api_v1
    \/ register_routes_and_events
    \/ startup_db
    \/ startup_db_connected
    \/ startup_db_failed
    \/ host_running
    \/ host_aborted
    \/ \E r \in Requests : dispatch(r)
    \/ \E r \in Requests : chain_returned(r)
    \/ \E r \in Requests : chain_raised(r)
    \/ shutdown_signal
    \/ shutdown_db
    \/ shutdown_db_closed
    \/ shutdown_db_failed
    \/ host_stopped

Spec == Init /\ [][Next]_vars

\* shutdown_db called again, directly, after the process has stopped.
release_again ==
    /\ appState = "STOPPED"
    /\ shutdown \in {"returned", "raised"}
    /\ closeCalls < MaxReleaseCalls
    /\ BeginClose
    /\ UNCHANGED <<wiring, appState, handle, startup, connectAttempts, released, req,
                   inflightAtSignal, signalled, releaseHistory, log>>

NextRelease ==
    \/ Next
    \/ release_again

SpecRelease == Init /\ [][NextRelease]_vars

\* router.include_router(..) called once more for a group already included,
\* before the router is put under its prefix.
include_router_again ==
    /\ appState = "LOADING"
    /\ v1router # <<>>
    /\ Len(v1router) < Len(V1Groups) + MaxDuplicateIncludes
    /\ \E i \in 1..Len(V1Groups) :
          v1router' = IncludeRouter(v1router, GroupRouter(V1Groups[i]), <<>>)
    /\ UNCHANGED <<appState, middleware, routes, state>>

NextRegistry ==
    \/ Next
    \/ include_router_again

SpecRegistry == Init /\ [][NextRegistry]_vars

----------------------------------------------------------------------------
(* Properties *)

Done(r) == req[r].pc = "done"

ChainRaised(r) == req[r].outcome.kind = "raise"

\* A resource-category failure: a RuntimeError whose message names MongoDB.
ResourceCategory(e) ==
    /\ IsInstance(e.type, "RuntimeError")
    /\ Contains(e.msg, <<"MongoDB">>)

ValidationFailure(e) == IsInstance(e.type, "RequestValidationError")

Fixed503 == [kind |-> "response", status |-> 503,
             body |-> << <<"detail", <<"Service unavailable - database error">> >> >>,
             type |-> "-", msg |-> <<>>]

Fixed500 == [kind |-> "response", status |-> 500,
             body |-> << <<"detail", <<"Internal server error">> >> >>,
             type |-> "-", msg |-> <<>>]

\* The tokens of every value of a body.
BodyTokens(body) ==
    UNION { { body[i][2][j] : j \in 1..Len(body[i][2]) } : i \in 1..Len(body) }

MsgTokens(msg) == { msg[j] : j \in 1..Len(msg) }

C2_OtherFailureGives500 ==
    \A r \in Requests :
        (/\ Done(r) /\ ChainRaised(r)
         /\ IsInstance(req[r].outcome.type, "Exception")
         /\ ~ResourceCategory(req[r].outcome)
         /\ ~ValidationFailure(req[r].outcome))
        => /\ req[r].result = Fixed500
           /\ req[r].result.kind # "raise"

\* C3: a request with a validation failure, handed to the middleware as the
\* built validation-error response or as a raised RequestValidationError, never
\* gets the 503 or the 500 fixed response from the middleware.
C3_ValidationNotTranslated ==
    \A r \in Requests :
        Done(r) =>
            /\ req[r].outcome = ValidationResponse => req[r].result = ValidationResponse
            /\ (ChainRaised(r) /\ ValidationFailure(req[r].outcome))
               => req[r].result \notin {Fixed503, Fixed500}

\* connect_to_mongo was tried and ended without a connection.
AcquisitionFailed == startup \in {"returned", "raised"} /\ handle = "none"

\* C4: when connect_to_mongo fails during startup_db, the failure is logged at
\* critical level and raised out of the hook, the application never runs: no
\* listener, no request dispatched.
C4_StartupFailureIsFatal ==
    AcquisitionFailed
    => /\ startup = "raised"
       /\ \E i \in 1..Len(log) : log[i].level = "critical"
       /\ appState \in {"STARTING", "ABORTED"}
       /\ \A r \in Requests : req[r].pc = "new"

C4_Witness ==
    /\ AcquisitionFailed
    /\ appState = "ABORTED"
    /\ Len(log) = 1

\* C5: no request is in a route handler, or was ever dispatched, while the
\* lifecycle is UNINITIALIZED or CONNECTING: startup_db has returned first.
C5_NoRequestBeforeReady ==
    \A r \in Requests :
        req[r].pc # "new"
        => /\ startup = "returned"
           /\ lifecycle \notin {"UNINITIALIZED", "CONNECTING"}

C5_Witness ==
    \E r \in Requests : req[r].pc = "awaiting" /\ lifecycle = "READY"

\* C6: shutdown_db never raises: when it has ended it has returned, and the
\* lifecycle is CLOSED, also when close_mongo_connection failed.
C6_ShutdownNeverRaises ==
    shutdown \in {"returned", "raised"}
    => /\ shutdown = "returned"
       /\ lifecycle = "CLOSED"

\* C7: shutdown_db called twice in succession: the lifecycle is CLOSED after
\* each call and the second call raises nothing.
C7_ReleaseIdempotent ==
    Len(releaseHistory) = 2
    => /\ \A i \in 1..2 : releaseHistory[i].state = "CLOSED"
       /\ ~releaseHistory[2].raised

\* C8: a shutdown signal with a request in flight: once the process has
\* stopped, that request has completed, the connection was released once,
\* after the signal, and the lifecycle is CLOSED.
C8_ShutdownWithInflight ==
    (appState = "STOPPED" /\ inflightAtSignal # {})
    => /\ \A r \in inflightAtSignal : Done(r)
       /\ released = 1
       /\ signalled
       /\ lifecycle = "CLOSED"

\* A fault response: a response the middleware built for a raised failure.
FaultResponse(r) == Done(r) /\ ChainRaised(r) /\ req[r].result.kind = "response"

\* C9: the fault response depends on the failure's classification alone: two
\* failures of one classification get the same status and body whatever their
\* messages, and every fault response is one of the two fixed ones.
C9_ResponseByClassificationOnly ==
    /\ \A r \in Requests : FaultResponse(r) => req[r].result \in {Fixed503, Fixed500}
    /\ \A r1, r2 \in Requests :
          (/\ FaultResponse(r1) /\ FaultResponse(r2)
           /\ Classify(req[r1].outcome) = Classify(req[r2].outcome))
          => /\ req[r1].result.status = req[r2].result.status
             /\ req[r1].result.body = req[r2].result.body

C9_Witness ==
    \E r1, r2 \in Requests :
        /\ FaultResponse(r1) /\ FaultResponse(r2)
        /\ Classify(req[r1].outcome) = Classify(req[r2].outcome)
        /\ req[r1].outcome.msg # req[r2].outcome.msg
        /\ req[r1].outcome.type # req[r2].outcome.type

\* C10: per request call_next is invoked once, the failure is classified at
\* most once and only after the chain has failed, and the chain is not invoked
\* again after a failure.
C10_CallNextOnce ==
    \A r \in Requests :
        /\ req[r].calls <= 1
        /\ req[r].classified <= 1
        /\ req[r].pc # "new" => req[r].calls = 1
        /\ req[r].classified = 1 => (Done(r) /\ ChainRaised(r))
        /\ req[r].pc = "awaiting" => req[r].outcome = NoOutcome

C10_Witness ==
    \E r \in Requests :
        Done(r) /\ ChainRaised(r) /\ req[r].calls = 1 /\ req[r].classified = 1

\* A failure an except clause of the middleware caught.
Intercepted(e) == IsInstance(e.type, "Exception")

ErrorRecords(m, traced) ==
    { i \in 1..Len(log) :
        /\ log[i].level = "error"
        /\ Tail(log[i].text) = m
        /\ traced => log[i].trace }

\* C11: every intercepted failure is in the log exactly once, at error level,
\* with its message, and with the trace when it is not a resource failure: per
\* message, as many records as intercepted failures.
C11_InterceptedFailureLoggedOnce ==
    \A m \in Messages :
        /\ Cardinality(ErrorRecords(m, FALSE))
             = Cardinality({ r \in Requests :
                   /\ Done(r) /\ ChainRaised(r) /\ Intercepted(req[r].outcome)
                   /\ req[r].outcome.msg = m })
        /\ Cardinality(ErrorRecords(m, TRUE))
             = Cardinality({ r \in Requests :
                   /\ Done(r) /\ ChainRaised(r) /\ Intercepted(req[r].outcome)
                   /\ ~ResourceCategory(req[r].outcome)
                   /\ req[r].outcome.msg = m })

\* C13: when the handler chain completes normally the middleware returns the
\* chain's response as it is, which is no fault response, and logs nothing.
C13_NormalResponseUnmodified ==
    [][\A r \in Requests :
          (req[r].pc = "awaiting" /\ req'[r].pc = "done" /\ req'[r].outcome.kind = "response")
          => /\ req'[r].result = req'[r].outcome
             /\ req'[r].result \notin {Fixed503, Fixed500}
             /\ log' = log]_vars

C13_Witness ==
    \E r \in Requests :
        /\ Done(r) /\ req[r].outcome.kind = "response"
        /\ req[r].result.status = 200
        /\ \A i \in 1..Len(log) : log[i].level # "error"

\* C14: connect_to_mongo is tried once per startup, and a failed attempt is the
\* end of the startup: no second attempt, no connection.
C14_ConnectOnce ==
    /\ connectAttempts <= 1
    /\ startup # "pending" => connectAttempts = 1
    /\ Cardinality({ i \in 1..Len(log) : log[i].level = "critical" }) <= 1
    /\ (\E i \in 1..Len(log) : log[i].level = "critical")
       => /\ startup = "raised"
          /\ connectAttempts = 1
          /\ handle = "none"
          /\ lifecycle # "READY"

C14_Witness ==
    /\ startup = "raised"
    /\ connectAttempts = 1
    /\ appState = "ABORTED"

HooksInOrder ==
    /\ shutdown # "pending" => startup = "returned"
    /\ ~(startup = "connecting" /\ shutdown = "closing")
    /\ lifecycle = "READY" => startup = "returned"
    /\ lifecycle = "CLOSED" => shutdown = "returned"
    /\ \A r \in Requests :
          req[r].pc = "awaiting" => startup = "returned" /\ shutdown = "pending"

\* C15 as stated: in a process lifetime, ended by a stop or by a startup abort,
\* each hook is invoked exactly once, startup first, never both at once, and
\* no request is in flight before acquire or after release began.
C15_HooksExactlyOnce ==
    /\ connectAttempts <= 1
    /\ closeCalls <= 1
    /\ appState \in {"STOPPED", "ABORTED"} => (connectAttempts = 1 /\ closeCalls = 1)
    /\ HooksInOrder

\* C15 as amended: the startup hook is invoked exactly once; the shutdown hook
\* at most once: exactly once in a lifetime that ran and stopped, never in one
\* whose startup failed; the order and the exclusion as stated.
C15_HooksOnceInOrder ==
    /\ connectAttempts <= 1
    /\ closeCalls <= 1
    /\ appState = "STOPPED" => (connectAttempts = 1 /\ closeCalls = 1)
    /\ appState = "ABORTED" => (connectAttempts = 1 /\ closeCalls = 0)
    /\ HooksInOrder

C15_Witness ==
    /\ appState = "STOPPED"
    /\ closeCalls = 1
    /\ \E r \in Requests : Done(r)

\* C16: whatever the interleaving, two requests whose chains ended alike get
\* the same response, and a step of one request changes no other request.
C16_RequestsIndependent ==
    /\ [](\A r1, r2 \in Requests :
            (Done(r1) /\ Done(r2) /\ req[r1].outcome = req[r2].outcome)
            => req[r1].result = req[r2].result)
    /\ [][\A r1, r2 \in Requests :
            r1 # r2 => (req'[r1] = req[r1] \/ req'[r2] = req[r2])]_vars
    /\ [][\A r \in Requests : Done(r) => req'[r] = req[r]]_vars

C16_Witness ==
    \E r1, r2 \in Requests :
        /\ r1 # r2
        /\ req[r1].result = Fixed503
        /\ req[r2].pc = "awaiting"

\* C17: no step of a request changes the lifecycle state or the connection;
\* they change only in steps of startup_db and shutdown_db.
C17_RequestsLeaveLifecycle ==
    /\ [][req' # req => (lifecycle' = lifecycle /\ handle' = handle)]_vars
    /\ [][(lifecycle' # lifecycle \/ handle' # handle)
          => (startup' # startup \/ shutdown' # shutdown)]_vars

C17_Witness ==
    \E r1, r2 \in Requests :
        /\ r1 # r2
        /\ req[r1].result = Fixed503
        /\ req[r2].pc = "new"
        /\ appState = "RUNNING"
        /\ lifecycle = "READY"

\* C20: the middleware answers 503 only for a RuntimeError whose message
\* contains "MongoDB"; a failure of another type gets no 503, also when its
\* message contains "MongoDB".
C20_Only503ForMongoRuntimeError ==
    \A r \in Requests :
        (Done(r) /\ ChainRaised(r))
        => /\ req[r].result.status = 503
              => /\ IsInstance(req[r].outcome.type, "RuntimeError")
                 /\ Contains(req[r].outcome.msg, <<"MongoDB">>)
           /\ ~IsInstance(req[r].outcome.type, "RuntimeError")
              => req[r].result.status # 503

C20_Witness ==
    \E r \in Requests :
        /\ Done(r) /\ ChainRaised(r)
        /\ req[r].outcome.type = "ValueError"
        /\ Contains(req[r].outcome.msg, <<"MongoDB">>)
        /\ req[r].result = Fixed500

HandlerOf(path) ==
    CASE path = <<>>                -> "root"
      [] path = <<"favicon.ico">>   -> "favicon"
      [] Len(path) = 3 /\ SubSeq(path, 1, 2) = <<"api", "v1">>
                                    -> path[3]
      [] OTHER                      -> "not_found"

\* C12: a request accepted while the application runs, whatever its path (the
\* root, the icon, a route under /api/v1), enters db_exception_handler before
\* it reaches its handler.
C12_EveryRequestThroughMiddleware ==
    \A r \in Requests :
        req[r].pc = "awaiting"
        => /\ Len(req[r].via) >= 2
           /\ req[r].via[Len(req[r].via)] = HandlerOf(req[r].path)
           /\ \E i \in 1..(Len(req[r].via) - 1) : req[r].via[i] = "db_exception_handler"

C12_Witness ==
    \E r1, r2 \in Requests :
        /\ req[r1].pc = "awaiting" /\ req[r1].path = <<"favicon.ico">>
        /\ req[r2].pc = "awaiting" /\ req[r2].path = <<"api", "v1", "admin">>
        /\ req[r1].via[1] = "db_exception_handler"
        /\ req[r2].via[1] = "db_exception_handler"

GroupNames == {"auth", "artwork", "blockchain", "admin"}

\* The four groups are in rs once each, under the prefix.
ComposedOnce(rs) ==
    \A g \in GroupNames :
        /\ Cardinality({ i \in 1..Len(rs) : rs[i].handler = g }) = 1
        /\ \E i \in 1..Len(rs) : rs[i] = [path |-> <<"api", "v1", g>>, handler |-> g]

\* C18: the four route groups are registered once each under /api/v1 while
\* the application is created, before startup_db runs, before the lifecycle
\* leaves UNINITIALIZED and before a request is accepted, and the namespace
\* does not change afterwards.
C18_RoutesComposedOnceBeforeReady ==
    /\ []((startup # "pending" \/ lifecycle # "UNINITIALIZED"
             \/ appState # "LOADING" \/ \E r \in Requests : req[r].pc # "new")
          => (appState # "LOADING" /\ ComposedOnce(routes)))
    /\ [][appState # "LOADING" => (routes' = routes /\ v1router' = v1router)]_vars

C18_Witness ==
    /\ appState = "RUNNING"
    /\ lifecycle = "READY"
    /\ ComposedOnce(routes)
    /\ \E r \in Requests : Done(r)

\* C19: a route group registered a second time is rejected and the registry
\* stays as it was: no group is in the router twice.
C19_DuplicateRegistrationRejected ==
    \A g \in GroupNames :
        Cardinality({ i \in 1..Len(v1router) : v1router[i].handler = g }) <= 1

====
